---- MODULE Spec2Model ----
(***************************************************************************)
(* Conversation thread assembly of meli (melib/src/mailbox/thread.rs):     *)
(* build_collection, the sent-folder merge, the root harvest and the       *)
(* flatten walk of build_threads, as a state machine that processes one    *)
(* envelope per step.                                                      *)
(*                                                                         *)
(* Vectors (threads, collection, root_set, threaded_collection) are        *)
(* functions on 0..n-1, as in the source; Option<usize> is an index or     *)
(* None.  Message-IDs are the numbers 1..NumIds, the empty string is       *)
(* EmptyId.  A subject is the sequence of its characters.                 *)
(***************************************************************************)
EXTENDS Integers, Sequences, FiniteSets, TLC

None == -1

NumIds == 3
MaxDate == 2
MaxRefs == 1
MaxPrimary == 3
MaxSent == 1

EmptyId == 0
MsgIds == 1..NumIds
Dates == 1..MaxDate
RefLists == UNION {[1..k -> MsgIds] : k \in 0..MaxRefs}
Subjects == {<<"a">>}

VARIABLES phase, collection, threads, id_table, idx, tidx, sent_seen,
          root_set, threaded_collection, panic, last
vars == <<phase, collection, threads, id_table, idx, tidx, sent_seen,
          root_set, threaded_collection, panic, last>>

(***************************************************************************)
(* Vec and HashMap                                                         *)
(***************************************************************************)
EmptyVec == [j \in {} |-> None]
VLen(v) == Cardinality(DOMAIN v)
Push(v, x) == [j \in 0..VLen(v) |-> IF j < VLen(v) THEN v[j] ELSE x]
EmptyMap == [k \in {} |-> None]
Insert(m, k, v) == [j \in (DOMAIN m) \cup {k} |-> IF j = k THEN v ELSE m[j]]
Values(m) == {m[k] : k \in DOMAIN m}

(***************************************************************************)
(* Envelope and Container                                                  *)
(***************************************************************************)
Envelope(m, refs, irt, d, s) ==
    [message_id |-> m, references |-> refs, in_reply_to |-> irt, date |-> d,
     subject |-> s, thread |-> None]
set_thread(x, t) == [x EXCEPT !.thread = t]

Container(id, message, parent, first_child, date) ==
    [id |-> id, message |-> message, parent |-> parent,
     first_child |-> first_child, next_sibling |-> None, date |-> date,
     indentation |-> 0, show_subject |-> TRUE]

has_parent(c) == c.parent # None
has_children(c) == c.first_child # None
has_sibling(c) == c.next_sibling # None
has_message(c) == c.message # None

\* ContainerEq that never finds a container again.
ContainerEq_never(a, b) == FALSE

\* ContainerEq that takes any two containers for the same.
ContainerEq_any(a, b) == TRUE

\* impl PartialEq for Container
ContainerEq(a, b) ==
    IF a.message # None /\ b.message # None
    THEN a.message = b.message
    ELSE a.id = b.id

\* The deepest call chain a walk over an acyclic arena can make; a walk that
\* goes deeper is on a cycle and never returns.
Fuel(ts) == VLen(ts) + 1

\* Container::is_descendant; "overflow" is the unbounded recursion on a cycle.
RECURSIVE is_descendant(_, _, _, _)
is_descendant(ts, self, other, fuel) ==
    IF fuel = 0 THEN "overflow"
    ELSE IF ContainerEq(ts[self], ts[other]) THEN "true"
    ELSE LET viaChild ==
                 IF ts[self].first_child # None
                 THEN is_descendant(ts, ts[self].first_child, other, fuel - 1)
                 ELSE "false"
         IN  IF viaChild # "false" THEN viaChild
             ELSE IF ts[self].next_sibling # None
                  THEN is_descendant(ts, ts[self].next_sibling, other, fuel - 1)
                  ELSE "false"

\* would_loop that also refuses every container that has children.
would_loop_shy(ts, p, c) ==
    IF p = c \/ has_children(ts[c]) THEN "true" ELSE "false"

\* would_loop with the cycle guard dropped.
would_loop_unguarded(ts, p, c) == "false"

\* The guard of both link sites: p.is_descendant(c) || c.is_descendant(p).
would_loop(ts, p, c) ==
    LET a == is_descendant(ts, p, c, Fuel(ts))
    IN  IF a # "false" THEN a ELSE is_descendant(ts, c, p, Fuel(ts))

\* scan_siblings that puts c in place of p's child list.
scan_siblings_overwrite(ts, p, child_iter, c, fuel) ==
    [threads |-> [ts EXCEPT ![p].first_child = c], ok |-> TRUE]

\* The while loop that walks p's child list to its end and appends c.
RECURSIVE scan_siblings(_, _, _, _, _)
scan_siblings(ts, p, child_iter, c, fuel) ==
    IF fuel = 0 THEN [threads |-> ts, ok |-> FALSE]
    ELSE IF ts[child_iter].next_sibling # None
         THEN scan_siblings([ts EXCEPT ![child_iter].parent = p], p,
                            ts[child_iter].next_sibling, c, fuel - 1)
         ELSE [threads |-> [ts EXCEPT ![child_iter].next_sibling = c,
                                      ![child_iter].parent = p],
               ok |-> TRUE]

\* append_child that links c in front of p's child list.
append_child_front(ts, p, c) ==
    [threads |-> [ts EXCEPT ![c].next_sibling = ts[p].first_child,
                            ![p].first_child = c],
     ok |-> TRUE]

append_child(ts, p, c) ==
    IF ts[p].first_child = None
    THEN [threads |-> [ts EXCEPT ![p].first_child = c], ok |-> TRUE]
    ELSE scan_siblings(ts, p, ts[p].first_child, c, Fuel(ts))

\* update_date that raises no date.
update_date_none(ts, parent_iter, date, fuel) == [threads |-> ts, ok |-> TRUE]

\* update_date that raises parent_iter alone and leaves its parent chain.
update_date_once(ts, parent_iter, date, fuel) ==
    [threads |-> IF ts[parent_iter].date < date
                 THEN [ts EXCEPT ![parent_iter].date = date]
                 ELSE ts,
     ok |-> TRUE]

\* The 'date loop: raise the date of parent_iter and of its parent chain.
RECURSIVE update_date(_, _, _, _)
update_date(ts, parent_iter, date, fuel) ==
    IF fuel = 0 THEN [threads |-> ts, ok |-> FALSE]
    ELSE LET t1 == IF ts[parent_iter].date < date
                   THEN [ts EXCEPT ![parent_iter].date = date]
                   ELSE ts
         IN  IF t1[parent_iter].parent # None
             THEN update_date(t1, t1[parent_iter].parent, date, fuel - 1)
             ELSE [threads |-> t1, ok |-> TRUE]

(***************************************************************************)
(* build_collection: the body of the loop for envelope x at position i     *)
(***************************************************************************)
Outcome(ts, tab, x, c, pn, ev) ==
    [threads |-> ts, id_table |-> tab, x |-> x, c |-> c, panic |-> pn, event |-> ev]

\* bind_message without the duplicate test: an indexed Message-ID is bound again.
bind_message_rebind(ts, tab, i, x) ==
    IF x.message_id \in DOMAIN tab
    THEN LET t == tab[x.message_id]
         IN  [skip |-> FALSE, x_index |-> t,
              threads |-> [ts EXCEPT ![t].date = x.date, ![t].message = i],
              id_table |-> tab, x |-> set_thread(x, t)]
    ELSE LET x_index == VLen(ts)
         IN  [skip |-> FALSE, x_index |-> x_index,
              threads |-> Push(ts, Container(x_index, i, None, None, x.date)),
              id_table |-> Insert(tab, x.message_id, x_index),
              x |-> set_thread(x, x_index)]

\* bind_message that leaves the message slot of an existing container empty.
bind_message_nofill(ts, tab, i, x) ==
    IF x.message_id \in DOMAIN tab
    THEN LET t == tab[x.message_id]
         IN  IF ts[t].message # None
             THEN [skip |-> TRUE, x_index |-> t, threads |-> ts, id_table |-> tab,
                   x |-> x]
             ELSE [skip |-> FALSE, x_index |-> t,
                   threads |-> [ts EXCEPT ![t].date = x.date],
                   id_table |-> tab, x |-> set_thread(x, t)]
    ELSE LET x_index == VLen(ts)
         IN  [skip |-> FALSE, x_index |-> x_index,
              threads |-> Push(ts, Container(x_index, i, None, None, x.date)),
              id_table |-> Insert(tab, x.message_id, x_index),
              x |-> set_thread(x, x_index)]

\* Lines 127-155: find or create the container of x and store x in it.
bind_message(ts, tab, i, x) ==
    IF x.message_id \in DOMAIN tab
    THEN LET t == tab[x.message_id]
         IN  IF ts[t].message # None
             THEN [skip |-> TRUE, x_index |-> t, threads |-> ts, id_table |-> tab,
                   x |-> x]
             ELSE [skip |-> FALSE, x_index |-> t,
                   threads |-> [ts EXCEPT ![t].date = x.date, ![t].message = i],
                   id_table |-> tab, x |-> set_thread(x, t)]
    ELSE LET x_index == VLen(ts)
         IN  [skip |-> FALSE, x_index |-> x_index,
              threads |-> Push(ts, Container(x_index, i, None, None, x.date)),
              id_table |-> Insert(tab, x.message_id, x_index),
              x |-> set_thread(x, x_index)]

Linked(ts, tab, parent_id, pn, ev) ==
    [threads |-> ts, id_table |-> tab, parent_id |-> parent_id, panic |-> pn,
     event |-> ev]

\* link_existing that sets parent before the cycle guard, as the merge does.
link_existing_parent_first(ts, tab, curr_ref, p) ==
    LET t0 == [ts EXCEPT ![curr_ref].parent = p]
        loop == would_loop(t0, p, curr_ref)
    IN  IF loop = "overflow" THEN Linked(t0, tab, p, "is_descendant", "none")
        ELSE IF loop = "true" THEN Linked(t0, tab, p, "", "refused")
        ELSE LET a == append_child(t0, p, curr_ref)
             IN  Linked(a.threads, tab, p, IF a.ok THEN "" ELSE "sibling scan", "linked")

\* Lines 174-191: the reference is indexed; link curr_ref under its container
\* p unless one is reachable from the other.
link_existing(ts, tab, curr_ref, p) ==
    LET loop == would_loop(ts, p, curr_ref)
    IN  IF loop = "overflow" THEN Linked(ts, tab, p, "is_descendant", "none")
        ELSE IF loop = "true" THEN Linked(ts, tab, p, "", "refused")
        ELSE LET a == append_child([ts EXCEPT ![curr_ref].parent = p], p, curr_ref)
             IN  Linked(a.threads, tab, p, IF a.ok THEN "" ELSE "sibling scan", "linked")

\* link_placeholder that does not index the placeholder it creates.
link_placeholder_noindex(ts, tab, curr_ref, r, x) ==
    LET new == VLen(ts)
        t1 == Push(ts, Container(new, None, None, curr_ref, x.date))
        t2 == IF t1[curr_ref].parent = None
              THEN [t1 EXCEPT ![curr_ref].parent = new]
              ELSE t1
    IN  Linked(t2, tab, new, "", "placeholder")

\* link_placeholder that leaves the parent of curr_ref unset.
link_placeholder_noparent(ts, tab, curr_ref, r, x) ==
    LET new == VLen(ts)
        t1 == Push(ts, Container(new, None, None, curr_ref, x.date))
    IN  Linked(t1, Insert(tab, r, new), new, "", "placeholder")

\* link_placeholder that hangs the placeholder below curr_ref.
link_placeholder_below(ts, tab, curr_ref, r, x) ==
    LET new == VLen(ts)
        t1 == Push(ts, Container(new, None, curr_ref, None, x.date))
        t2 == IF t1[curr_ref].first_child = None
              THEN [t1 EXCEPT ![curr_ref].first_child = new]
              ELSE t1
    IN  Linked(t2, Insert(tab, r, new), new, "", "placeholder")

\* link_placeholder that creates the placeholder with no first_child.
link_placeholder_childless(ts, tab, curr_ref, r, x) ==
    LET new == VLen(ts)
        t1 == Push(ts, Container(new, None, None, None, x.date))
        t2 == IF t1[curr_ref].parent = None
              THEN [t1 EXCEPT ![curr_ref].parent = new]
              ELSE t1
    IN  Linked(t2, Insert(tab, r, new), new, "", "placeholder")

\* Lines 193-208: the reference is not indexed; create a placeholder for it
\* with curr_ref as its first child.
link_placeholder(ts, tab, curr_ref, r, x) ==
    LET new == VLen(ts)
        t1 == Push(ts, Container(new, None, None, curr_ref, x.date))
        t2 == IF t1[curr_ref].parent = None
              THEN [t1 EXCEPT ![curr_ref].parent = new]
              ELSE t1
    IN  Linked(t2, Insert(tab, r, new), new, "", "placeholder")

\* Lines 173-209: link curr_ref under the container of reference r.
link_reference(ts, tab, curr_ref, r, x) ==
    IF r \in DOMAIN tab
    THEN link_existing(ts, tab, curr_ref, tab[r])
    ELSE link_placeholder(ts, tab, curr_ref, r, x)

\* used_reference that takes the oldest entry of the list.
used_reference_first(references) == references[1]

\* Lines 168-172: the one entry the reversed loop gets to use, the last.
used_reference(references) == references[Len(references)]

\* Lines 166-227: only the first iteration of the reversed References loop
\* gets past the iasf test, so only the last reference is used.
build_collection_step(ts, tab, i, x) ==
    LET b == bind_message(ts, tab, i, x)
    IN  IF b.skip THEN Outcome(ts, tab, b.x, b.x_index, "", "duplicate")
        ELSE IF Len(x.references) = 0
        THEN Outcome(b.threads, b.id_table, b.x, b.x_index, "", "bound")
        ELSE LET r == used_reference(x.references)
                 l == link_reference(b.threads, b.id_table, b.x_index, r, x)
             IN  IF l.panic # ""
                 THEN Outcome(l.threads, l.id_table, b.x, b.x_index, l.panic, l.event)
                 ELSE LET d == update_date(l.threads, l.parent_id, x.date, Fuel(l.threads))
                      IN  Outcome(d.threads, l.id_table, b.x, b.x_index,
                                  IF d.ok THEN "" ELSE "date walk", l.event)

(***************************************************************************)
(* build_threads: the sent-folder merge, the body of the loop for sent     *)
(* envelope x (lines 264-339)                                              *)
(***************************************************************************)
MergeOutcome(ts, tab, coll, i, ti, c, pn, ev) ==
    [threads |-> ts, id_table |-> tab, collection |-> coll, idx |-> i, tidx |-> ti,
     c |-> c, panic |-> pn, event |-> ev]

\* sent_matches that takes every sent envelope as relevant.
sent_matches_all(tab, x) == TRUE

\* Lines 265-267: the sent envelope is relevant to this folder.
sent_matches(tab, x) ==
    \/ x.message_id \in DOMAIN tab
    \/ (x.in_reply_to # EmptyId /\ x.in_reply_to \in DOMAIN tab)

\* merge_bind without the duplicate test.
merge_bind_rebind(ts, tab, coll, i, ti, x) ==
    LET c == tab[x.message_id]
        t1 == [ts EXCEPT ![c].message = i]
    IN  IF ~has_children(t1[c])
        THEN MergeOutcome(t1, tab, coll, i, ti, c, "assert has_children", "bound")
        ELSE MergeOutcome([t1 EXCEPT ![c].date = x.date], tab,
                          Push(coll, set_thread(x, c)), i + 1, ti, c, "", "bound")

\* merge_bind that binds the envelope without copying it into the collection.
merge_bind_nopush(ts, tab, coll, i, ti, x) ==
    LET c == tab[x.message_id]
    IN  IF ts[c].message # None
        THEN MergeOutcome(ts, tab, coll, i, ti, c, "", "duplicate")
        ELSE LET t1 == [ts EXCEPT ![c].message = i]
             IN  IF ~has_children(t1[c])
                 THEN MergeOutcome(t1, tab, coll, i, ti, c, "assert has_children", "bound")
                 ELSE MergeOutcome([t1 EXCEPT ![c].date = x.date], tab, coll, i, ti, c,
                                   "", "bound")

\* merge_bind that copies the envelope without its thread back-reference.
merge_bind_nothread(ts, tab, coll, i, ti, x) ==
    LET c == tab[x.message_id]
    IN  IF ts[c].message # None
        THEN MergeOutcome(ts, tab, coll, i, ti, c, "", "duplicate")
        ELSE LET t1 == [ts EXCEPT ![c].message = i]
             IN  IF ~has_children(t1[c])
                 THEN MergeOutcome(t1, tab, coll, i, ti, c, "assert has_children", "bound")
                 ELSE MergeOutcome([t1 EXCEPT ![c].date = x.date], tab,
                                   Push(coll, x), i + 1, ti, c, "", "bound")

\* Lines 270-279: the Message-ID is indexed; fill its empty container.
merge_bind(ts, tab, coll, i, ti, x) ==
    LET c == tab[x.message_id]
    IN  IF ts[c].message # None
        THEN MergeOutcome(ts, tab, coll, i, ti, c, "", "duplicate")
        ELSE LET t1 == [ts EXCEPT ![c].message = i]
             IN  IF ~has_children(t1[c])
                 THEN MergeOutcome(t1, tab, coll, i, ti, c, "assert has_children", "bound")
                 ELSE MergeOutcome([t1 EXCEPT ![c].date = x.date], tab,
                                   Push(coll, set_thread(x, c)), i + 1, ti, c, "", "bound")

\* Lines 283-337: a reply to an indexed message gets a container under it.
merge_reply(ts, tab, coll, i, ti, x) ==
    LET p == tab[x.in_reply_to]
        fresh == x.message_id \notin DOMAIN tab
        c == IF fresh THEN ti ELSE tab[x.message_id]
        t1 == IF fresh THEN Push(ts, Container(ti, i, p, None, x.date)) ELSE ts
        tab1 == IF fresh THEN Insert(tab, x.message_id, ti) ELSE tab
        x1 == IF fresh THEN set_thread(x, ti) ELSE x
        ti1 == IF fresh THEN ti + 1 ELSE ti
    IN  IF c \notin DOMAIN t1
        THEN MergeOutcome(t1, tab1, coll, i, ti1, c, "index out of bounds", "none")
        ELSE LET t2 == [t1 EXCEPT ![c].parent = p]
                 loop == would_loop(t2, p, c)
             IN  IF loop = "overflow"
                 THEN MergeOutcome(t2, tab1, coll, i, ti1, c, "is_descendant", "none")
                 ELSE IF loop = "true"
                 THEN MergeOutcome(t2, tab1, coll, i, ti1, c, "", "refused")
                 ELSE LET a == append_child(t2, p, c)
                          d == update_date(a.threads, p, x.date, Fuel(a.threads))
                      IN  IF ~a.ok
                          THEN MergeOutcome(a.threads, tab1, coll, i, ti1, c,
                                            "sibling scan", "none")
                          ELSE IF ~d.ok
                          THEN MergeOutcome(d.threads, tab1, coll, i, ti1, c,
                                            "date walk", "none")
                          ELSE MergeOutcome(d.threads, tab1, Push(coll, x1), i + 1, ti1,
                                            c, "", "linked")

merge_step(ts, tab, coll, i, ti, x) ==
    IF ~sent_matches(tab, x)
    THEN MergeOutcome(ts, tab, coll, i, ti, None, "", "ignored")
    ELSE IF x.message_id \in DOMAIN tab
    THEN merge_bind(ts, tab, coll, i, ti, x)
    ELSE IF x.in_reply_to # EmptyId /\ x.in_reply_to \in DOMAIN tab
    THEN merge_reply(ts, tab, coll, i, ti, x)
    ELSE MergeOutcome(ts, tab, Push(coll, x), i + 1, ti, None, "", "none")

(***************************************************************************)
(* build_threads: the root harvest (lines 344-358)                         *)
(***************************************************************************)
ToVec(q) == [j \in 0..(Len(q) - 1) |-> q[j + 1]]

\* The orders in which id_table.values() may yield the containers that pass the
\* parent.is_none() test; a hash map's iteration order is unspecified.
RootOrders(ts, tab) ==
    LET R == {v \in Values(tab) : ts[v].parent = None}
    IN  {q \in [1..Cardinality(R) -> R] : \A a, b \in DOMAIN q : a # b => q[a] # q[b]}

\* harvest_one without the promotion of a single child.
harvest_one_keep(ts, v) == v

\* Lines 347-355: what is pushed for the parentless container v.
harvest_one(ts, v) ==
    IF ~has_message(ts[v]) /\ has_children(ts[v])
       /\ ~has_sibling(ts[ts[v].first_child])
    THEN ts[v].first_child
    ELSE v

\* sort_by_date that leaves the roots as they were pushed.
sort_by_date_unsorted(ts, q) == q

\* root_set.sort_by(|a, b| threads[*b].date.cmp(&threads[*a].date)): a stable
\* sort, most recent date first.
RECURSIVE sort_by_date(_, _)
sort_by_date(ts, q) ==
    IF Len(q) <= 1 THEN q
    ELSE LET e == q[Len(q)]
             rest == sort_by_date(ts, SubSeq(q, 1, Len(q) - 1))
             keep == {k \in 1..Len(rest) : ts[rest[k]].date >= ts[e].date}
             at == IF keep = {} THEN 0 ELSE CHOOSE k \in keep : \A m \in keep : m <= k
         IN  SubSeq(rest, 1, at) \o <<e>> \o SubSeq(rest, at + 1, Len(rest))

harvest(ts, order) ==
    ToVec(sort_by_date(ts, [k \in DOMAIN order |-> harvest_one(ts, order[k])]))

(***************************************************************************)
(* build_threads: the flatten walk (lines 361-421)                         *)
(***************************************************************************)
\* The characters of "Re: ".
RePrefix == <<"R", "e", ":", " ">>
\* subject.starts_with("Re: ")
starts_with_re(subject) ==
    /\ Len(RePrefix) <= Len(subject)
    /\ SubSeq(subject, 1, Len(RePrefix)) = RePrefix
\* subject.ends_with(tail), character by character.
ends_with(subject, tail) ==
    /\ Len(tail) <= Len(subject)
    /\ SubSeq(subject, Len(subject) - Len(tail) + 1, Len(subject)) = tail

Walk(ts, threaded, pn) == [threads |-> ts, threaded |-> threaded, panic |-> pn]

\* Lines 371-385: hide the subject of a reply that repeats the subject of the
\* container passed as root_subject_idx.
subject_step(ts, indentation, i, root_subject_idx, coll) ==
    LET thread == ts[i]
    IN  IF ~has_message(ts[root_subject_idx]) THEN [threads |-> ts, ok |-> TRUE]
        ELSE IF ts[root_subject_idx].message \notin DOMAIN coll
        THEN [threads |-> ts, ok |-> FALSE]
        ELSE IF ~(indentation > 0 /\ has_message(thread))
        THEN [threads |-> ts, ok |-> TRUE]
        ELSE IF thread.message \notin DOMAIN coll
        THEN [threads |-> ts, ok |-> FALSE]
        ELSE LET root_subject == coll[ts[root_subject_idx].message].subject
                 subject == coll[thread.message].subject
             IN  IF \/ subject = root_subject
                    \/ (starts_with_re(subject) /\ ends_with(subject, root_subject))
                 THEN [threads |-> [ts EXCEPT ![i].show_subject = FALSE], ok |-> TRUE]
                 ELSE [threads |-> ts, ok |-> TRUE]

\* clear_parent that leaves every parent field as it is.
clear_parent_never(ts, i, thread) == ts

\* Lines 386-388: the display-time clearing of parent.
clear_parent(ts, i, thread) ==
    IF has_parent(thread) /\ ~has_message(ts[thread.parent])
    THEN [ts EXCEPT ![i].parent = None]
    ELSE ts

\* next_indentation that never goes a level deeper.
next_indentation_flat(thread, indentation) == indentation

\* Lines 389-399: the indentation handed to the children of thread.
next_indentation(thread, indentation) ==
    IF has_message(thread) THEN indentation + 1
    ELSE IF indentation > 0 THEN indentation
    ELSE indentation + 1

RECURSIVE build_threaded(_, _, _, _, _, _, _)
RECURSIVE walk_children(_, _, _, _, _, _, _, _)
\* fn build_threaded; thread is the copy of threads[i] taken on entry.
build_threaded(ts, indentation, threaded, i, root_subject_idx, coll, fuel) ==
    IF fuel = 0 THEN Walk(ts, threaded, "build_threaded")
    ELSE LET thread == ts[i]
             s == subject_step(ts, indentation, i, root_subject_idx, coll)
             t2 == clear_parent(s.threads, i, thread)
             t3 == IF has_message(thread)
                   THEN [t2 EXCEPT ![i].indentation = indentation]
                   ELSE t2
             th3 == IF has_message(thread) /\ (\A j \in DOMAIN threaded : threaded[j] # i)
                    THEN Push(threaded, i)
                    ELSE threaded
             ind == next_indentation(thread, indentation)
         IN  IF ~s.ok THEN Walk(s.threads, threaded, "index out of bounds")
             ELSE IF has_children(thread)
             THEN walk_children(t3, ind, th3, thread.first_child, i, coll, fuel - 1,
                                Fuel(ts))
             ELSE Walk(t3, th3, "")

\* Lines 401-409: the loop over the children of i, fc being the current one.
walk_children(ts, indentation, threaded, fc, i, coll, fuel, turns) ==
    IF turns = 0 THEN Walk(ts, threaded, "child loop")
    ELSE LET w == build_threaded(ts, indentation, threaded, fc, i, coll, fuel)
         IN  IF w.panic # "" THEN w
             ELSE IF ~has_sibling(w.threads[fc]) THEN w
             ELSE walk_children(w.threads, indentation, w.threaded,
                                w.threads[fc].next_sibling, i, coll, fuel, turns - 1)

\* Lines 412-421: one walk per root, in root_set order, from position k on.
RECURSIVE flatten(_, _, _, _, _)
flatten(ts, threaded, roots, k, coll) ==
    IF k >= VLen(roots) THEN Walk(ts, threaded, "")
    ELSE LET w == build_threaded(ts, 0, threaded, roots[k], roots[k], coll, Fuel(ts))
         IN  IF w.panic # "" THEN w
             ELSE flatten(w.threads, w.threaded, roots, k + 1, coll)

(***************************************************************************)
(* The state machine                                                       *)
(***************************************************************************)
PrimaryEnvelopes ==
    {Envelope(m, refs, EmptyId, d, s) :
        m \in MsgIds, refs \in RefLists, d \in Dates, s \in Subjects}
SentEnvelopes ==
    {Envelope(m, <<>>, irt, d, s) :
        m \in MsgIds, irt \in {EmptyId} \cup MsgIds, d \in Dates, s \in Subjects}

\* last: the step just taken, the envelope it examined, what became of it
\* and the container it worked on.
NoEnvelope == Envelope(EmptyId, <<>>, EmptyId, 0, <<>>)
Step(op, event, c, x) == [op |-> op, event |-> event, c |-> c, x |-> x]

Init ==
    /\ phase = "primary"
    /\ collection = EmptyVec
    /\ threads = EmptyVec
    /\ id_table = EmptyMap
    /\ idx = 0
    /\ tidx = 0
    /\ sent_seen = 0
    /\ root_set = EmptyVec
    /\ threaded_collection = EmptyVec
    /\ panic = ""
    /\ last = Step("new", "none", None, NoEnvelope)

\* build_collection, one turn of its loop: x is collection[i].
ProcessPrimary(x) ==
    /\ phase = "primary"
    /\ VLen(collection) < MaxPrimary
    /\ LET o == build_collection_step(threads, id_table, VLen(collection), x)
       IN  /\ threads' = o.threads
           /\ id_table' = o.id_table
           /\ collection' = Push(collection, o.x)
           /\ panic' = o.panic
           /\ phase' = IF o.panic # "" THEN "panicked" ELSE "primary"
           /\ last' = Step("primary", o.event, o.c, x)
    /\ UNCHANGED <<idx, tidx, sent_seen, root_set, threaded_collection>>

\* Lines 248-249: build_collection has returned.
BeginMerge ==
    /\ phase = "primary"
    /\ phase' = "sent"
    /\ idx' = VLen(collection)
    /\ tidx' = VLen(threads)
    /\ last' = Step("begin_merge", "none", None, NoEnvelope)
    /\ UNCHANGED <<collection, threads, id_table, sent_seen, root_set,
                   threaded_collection, panic>>

\* One turn of the loop over the sent mailbox's collection.
ProcessSent(x) ==
    /\ phase = "sent"
    /\ sent_seen < MaxSent
    /\ LET o == merge_step(threads, id_table, collection, idx, tidx, x)
       IN  /\ threads' = o.threads
           /\ id_table' = o.id_table
           /\ collection' = o.collection
           /\ idx' = o.idx
           /\ tidx' = o.tidx
           /\ panic' = o.panic
           /\ phase' = IF o.panic # "" THEN "panicked" ELSE "sent"
           /\ last' = Step("sent", o.event, o.c, x)
    /\ sent_seen' = sent_seen + 1
    /\ UNCHANGED <<root_set, threaded_collection>>

\* Lines 344-358; an absent or empty sent folder is sent_seen = 0.
Harvest ==
    /\ phase = "sent"
    /\ \E order \in RootOrders(threads, id_table) :
           root_set' = harvest(threads, order)
    /\ phase' = "harvested"
    /\ last' = Step("harvest", "none", None, NoEnvelope)
    /\ UNCHANGED <<collection, threads, id_table, idx, tidx, sent_seen,
                   threaded_collection, panic>>

\* Lines 361-424: the flatten walk and the return.
Flatten ==
    /\ phase = "harvested"
    /\ LET w == flatten(threads, threaded_collection, root_set, 0, collection)
       IN  /\ threads' = w.threads
           /\ threaded_collection' = w.threaded
           /\ panic' = w.panic
           /\ phase' = IF w.panic # "" THEN "panicked" ELSE "done"
    /\ last' = Step("flatten", "none", None, NoEnvelope)
    /\ UNCHANGED <<collection, id_table, idx, tidx, sent_seen, root_set>>

Next ==
    \/ \E x \in PrimaryEnvelopes : ProcessPrimary(x)
    \/ BeginMerge
    \/ \E x \in SentEnvelopes : ProcessSent(x)
    \/ Harvest
    \/ Flatten

Spec == Init /\ [][Next]_vars

\* A build without sent folder over envelopes with one more date, for the
\* order of threads by date.
WideDates == 1..(MaxDate + 1)
DatedEnvelopes ==
    {Envelope(m, refs, EmptyId, d, s) :
        m \in MsgIds, refs \in RefLists, d \in WideDates, s \in Subjects}
NextDates ==
    \/ \E x \in DatedEnvelopes : ProcessPrimary(x)
    \/ BeginMerge
    \/ Harvest
    \/ Flatten
SpecDates == Init /\ [][NextDates]_vars

\* A build without sent folder over envelopes of one date whose subjects
\* differ, for the subject column.
SubjectChoices == {<<"a">>, <<"b">>, RePrefix \o <<"a">>, <<" ", "a">>}
SubjectEnvelopes ==
    {Envelope(m, refs, EmptyId, 1, s) :
        m \in MsgIds, refs \in RefLists, s \in SubjectChoices}
NextSubjects ==
    \/ \E x \in SubjectEnvelopes : ProcessPrimary(x)
    \/ BeginMerge
    \/ Harvest
    \/ Flatten
SpecSubjects == Init /\ [][NextSubjects]_vars

(***************************************************************************)
(* The shape of the arena, read off the fields without the code's walks    *)
(***************************************************************************)
RECURSIVE Grow(_, _, _)
\* S and everything reached from it by first_child/next_sibling, k rounds.
Grow(ts, S, k) ==
    LET S2 == S \cup {ts[a].first_child : a \in S} \cup {ts[a].next_sibling : a \in S}
        S3 == S2 \ {None}
    IN  IF k = 0 \/ S3 = S THEN S ELSE Grow(ts, S3, k - 1)

LinkReach(ts, c) == Grow(ts, {ts[c].first_child, ts[c].next_sibling} \ {None}, VLen(ts))
Descendants(ts, c) == Grow(ts, {ts[c].first_child} \ {None}, VLen(ts))

RECURSIVE UpChain(_, _, _)
\* The containers met by following parent from c, at most k hops.
UpChain(ts, c, k) ==
    IF k = 0 \/ ts[c].parent = None THEN {}
    ELSE {ts[c].parent} \cup UpChain(ts, ts[c].parent, k - 1)
Ancestors(ts, c) == UpChain(ts, c, VLen(ts))

RECURSIVE SiblingsFrom(_, _, _)
SiblingsFrom(ts, c, k) ==
    IF c = None \/ k = 0 THEN <<>>
    ELSE <<c>> \o SiblingsFrom(ts, ts[c].next_sibling, k - 1)
\* The child list of p, first to last.
ChildList(ts, p) == SiblingsFrom(ts, ts[p].first_child, VLen(ts) + 1)

Placeholders(ts) == {c \in DOMAIN ts : ts[c].message = None}

\* Envelope j repeats the Message-ID of an earlier envelope of the collection.
Duplicate(coll, j) == \E k \in DOMAIN coll : k < j /\ coll[k].message_id = coll[j].message_id

\* C1: after every envelope of the primary build and of the merge the arena is
\* acyclic: no container is its own ancestor through parent, none is reached
\* from itself through first_child/next_sibling.
Acyclic ==
    \A c \in DOMAIN threads :
        /\ c \notin Ancestors(threads, c)
        /\ c \notin LinkReach(threads, c)

\* C1 witness: a message that fills a placeholder and refers to one of its own
\* replies has just been refused by the primary build.
MutualReferenceRefused ==
    /\ last.op = "primary"
    /\ last.event = "refused"
    /\ has_children(threads[last.c])
    /\ last.x.references[Len(last.x.references)] # last.x.message_id

\* C2: when build_threads has returned, the date of every container is at least
\* the date of each of its descendants.
DateMonotone ==
    phase = "done" =>
        \A c \in DOMAIN threads :
            \A d \in Descendants(threads, c) : threads[c].date >= threads[d].date

\* C3: every container occurs in the child list of at most one container and at
\* most once in it.
Forest ==
    \A c \in DOMAIN threads :
        Cardinality({pk \in {<<p, k>> : p \in DOMAIN threads, k \in 1..(VLen(threads) + 1)} :
                        /\ pk[2] <= Len(ChildList(threads, pk[1]))
                        /\ ChildList(threads, pk[1])[pk[2]] = c}) <= 1

\* C3 witness: a cycle attempt has just been refused for a container that
\* already has two children.
RefusedWithTwoChildren ==
    /\ last.event = "refused"
    /\ Len(ChildList(threads, last.c)) >= 2

\* C4 as stated: when build_threads has returned, every envelope of the
\* collection is held by exactly one container's message slot.
HoldersOf(i) == {c \in DOMAIN threads : threads[c].message = i}
EveryEnvelopeBound ==
    phase = "done" =>
        \A i \in DOMAIN collection : Cardinality(HoldersOf(i)) = 1

\* C4 amended: when build_threads has returned, an envelope whose Message-ID
\* does not occur at an earlier position of the collection is held by exactly
\* one container, and an envelope that repeats an earlier Message-ID by none.
FirstOccurrencesBound ==
    phase = "done" =>
        \A i \in DOMAIN collection :
            Cardinality(HoldersOf(i)) = IF Duplicate(collection, i) THEN 0 ELSE 1

\* C4 witness: a finished build whose collection holds a repeated Message-ID
\* and a reply attached from the sent folder.
DoneWithDuplicateAndSentReply ==
    /\ phase = "done"
    /\ \E i \in DOMAIN collection : Duplicate(collection, i)
    /\ \E i \in DOMAIN collection : collection[i].in_reply_to # EmptyId

\* C5: after every step no two containers hold the same envelope index, every
\* held index is a position of the collection, and an envelope's thread field
\* is c exactly when container c holds that envelope.
SingleOwner ==
    /\ \A c, d \in DOMAIN threads :
           (c # d /\ threads[c].message # None) => threads[c].message # threads[d].message
    /\ \A c \in DOMAIN threads :
           threads[c].message # None => threads[c].message \in DOMAIN collection
    /\ \A i \in DOMAIN collection : \A c \in DOMAIN threads :
           (collection[i].thread = c) <=> (threads[c].message = i)

\* C5 witness: a sent envelope has just been stored in a container while the
\* collection holds a skipped duplicate.
SentStoredBesideDuplicate ==
    /\ last.op = "sent"
    /\ last.c # None
    /\ threads[last.c].message = VLen(collection) - 1
    /\ \E i \in DOMAIN collection : Duplicate(collection, i)

\* C6: a bound message slot is never rebound, and a step that examines an
\* envelope whose Message-ID an envelope of the collection already carries
\* changes no container and no index entry, writes no thread back-reference,
\* and (in the merge) does not copy the envelope.
NeverRebound ==
    \A c \in DOMAIN threads :
        threads[c].message # None => threads'[c].message = threads[c].message
DuplicateSkipped ==
    (/\ last'.op \in {"primary", "sent"}
     /\ \E j \in DOMAIN collection : collection[j].message_id = last'.x.message_id)
    => /\ threads' = threads
       /\ id_table' = id_table
       /\ collection' = IF last'.op = "primary" THEN Push(collection, last'.x)
                                                 ELSE collection
FirstOccurrenceWins == [][NeverRebound /\ DuplicateSkipped]_vars

\* C6 witness: the merge has just examined a sent envelope that repeats a bound
\* Message-ID, with another date and an In-Reply-To that is indexed.
SentDuplicateExamined ==
    /\ last.op = "sent"
    /\ \E j \in DOMAIN collection :
           /\ collection[j].message_id = last.x.message_id
           /\ collection[j].date # last.x.date
    /\ last.x.in_reply_to \in DOMAIN id_table

\* The Message-IDs seen so far: those of the envelopes of the collection and
\* the last reference of every envelope that was not skipped as a duplicate.
SeenIds ==
    {collection[j].message_id : j \in DOMAIN collection}
    \cup {collection[j].references[Len(collection[j].references)] :
             j \in {k \in DOMAIN collection :
                       ~Duplicate(collection, k) /\ Len(collection[k].references) > 0}}

\* C7: at every step the ID index maps exactly the Message-IDs seen so far,
\* one to one, onto the containers of the arena, and every container's id is
\* its position.
IndexBijection ==
    /\ DOMAIN id_table = SeenIds
    /\ \A a, b \in DOMAIN id_table : a # b => id_table[a] # id_table[b]
    /\ Values(id_table) = DOMAIN threads
    /\ DOMAIN threads = 0..(VLen(threads) - 1)
    /\ \A c \in DOMAIN threads : threads[c].id = c

\* C7 witness: the merge has just given a sent reply a container while a
\* placeholder is in the arena.
SentLinkedBesidePlaceholder ==
    /\ last.op = "sent"
    /\ last.event = "linked"
    /\ Placeholders(threads) # {}

\* C8: at every step a placeholder has a child, and the merge's
\* assert!(threads[c].has_children()) has not failed.
PlaceholderHasChild ==
    /\ \A c \in Placeholders(threads) : has_children(threads[c])
    /\ panic # "assert has_children"

\* C8 witness: the merge has just stored a sent envelope in a placeholder.
SentFilledPlaceholder ==
    /\ last.op = "sent"
    /\ last.event = "bound"
    /\ has_children(threads[last.c])
    /\ threads[last.c].message = VLen(collection) - 1

\* The triple of link fields of every container.
Links(ts) == [c \in DOMAIN ts |-> <<ts[c].parent, ts[c].first_child, ts[c].next_sibling>>]

\* Envelope x, not yet examined, names as its last reference its own
\* Message-ID or a message in the subtree of its own (placeholder) container.
RefersIntoOwnSubtree(ts, tab, x) ==
    /\ Len(x.references) > 0
    /\ LET r == x.references[Len(x.references)]
       IN  \/ r = x.message_id
           \/ /\ x.message_id \in DOMAIN tab
              /\ r \in DOMAIN tab
              /\ tab[r] \in Descendants(ts, tab[x.message_id])

\* The examined envelopes whose reference is their own container or lies in
\* its subtree: those whose link the guard refused.
RefusedEnvelopes ==
    {j \in DOMAIN collection :
        /\ ~Duplicate(collection, j)
        /\ Len(collection[j].references) > 0
        /\ LET c == id_table[collection[j].message_id]
               p == id_table[collection[j].references[Len(collection[j].references)]]
           IN  p = c \/ p \in Descendants(threads, c)}

RefusalChangesNoLink ==
    (/\ last'.op = "primary"
     /\ \A j \in DOMAIN collection : collection[j].message_id # last'.x.message_id
     /\ RefersIntoOwnSubtree(threads, id_table, last'.x))
    => /\ \A c \in DOMAIN threads : Links(threads')[c] = Links(threads)[c]
       /\ \A c \in (DOMAIN threads') \ (DOMAIN threads) :
              Links(threads')[c] = <<None, None, None>>

RefusedIsRoot ==
    \A j \in RefusedEnvelopes :
        LET c == id_table[collection[j].message_id]
        IN  /\ threads[c].parent = None
            /\ phase \in {"harvested", "done"} =>
                   \E k \in DOMAIN root_set : root_set[k] = c

\* C9: a primary-build step whose link the cycle guard refuses changes no
\* parent, first_child or next_sibling field, and the container of a refused
\* envelope stays parentless and is in the harvested root set.
RefusedLinkLeavesRoot == [][RefusalChangesNoLink /\ RefusedIsRoot']_vars

\* C9 witness: a finished build in which a message that referred to one of its
\* own replies was refused.
DoneAfterRefusedReply ==
    /\ phase = "done"
    /\ \E j \in RefusedEnvelopes :
           collection[j].references[Len(collection[j].references)]
               # collection[j].message_id

\* C10: no step of build_threads fails an assertion, indexes out of range or
\* walks without end.
NeverPanics == panic = "" /\ phase # "panicked"

\* C10 witness: build_threads has returned for an input with a refused
\* reference and a dangling reference whose placeholder a sent envelope filled.
DoneOnAdversarialInput ==
    /\ phase = "done"
    /\ RefusedEnvelopes # {}
    /\ \E j \in DOMAIN collection :
           /\ collection[j].in_reply_to # EmptyId
           /\ collection[j].thread # None
           /\ has_children(threads[collection[j].thread])

Range(v) == {v[k] : k \in DOMAIN v}
Parentless(ts) == {v \in DOMAIN ts : ts[v].parent = None}

\* What the harvest is to push for the parentless container v.
HarvestedFor(ts, v) ==
    IF ts[v].message = None /\ Len(ChildList(ts, v)) = 1
    THEN ChildList(ts, v)[1]
    ELSE v

\* C11: the harvested root list holds, for each parentless container, the
\* container itself or, for a placeholder with a single child, that child; a
\* placeholder with two or more children and a standalone message stay in it
\* themselves, and no container is in it twice.
RootPromotion ==
    phase = "harvested" =>
        /\ Range(root_set) = {HarvestedFor(threads, v) : v \in Parentless(threads)}
        /\ VLen(root_set) = Cardinality(Parentless(threads))
        /\ \A k, l \in DOMAIN root_set : k # l => root_set[k] # root_set[l]
        /\ \A v \in Parentless(threads) :
               (has_message(threads[v]) \/ Len(ChildList(threads, v)) >= 2)
                   => v \in Range(root_set)

\* C11 witness: the harvest has promoted the only child of a placeholder next
\* to a standalone message that is its own root.
PromotedBesideStandalone ==
    /\ phase = "harvested"
    /\ \E k \in DOMAIN root_set : threads[root_set[k]].parent # None
    /\ \E k \in DOMAIN root_set :
           /\ has_message(threads[root_set[k]])
           /\ threads[root_set[k]].parent = None
           /\ ~has_children(threads[root_set[k]])

\* The message-bearing containers of the thread harvested as r.
Members(ts, r) == {c \in {r} \cup Descendants(ts, r) : has_message(ts[c])}
Positions(c) == {j \in DOMAIN threaded_collection : threaded_collection[j] = c}

\* C12: the root list is in non-increasing order of the roots' date, and the
\* flat order holds the threads in root list order.
RootsByDate ==
    /\ phase \in {"harvested", "done"} =>
           \A k, l \in DOMAIN root_set :
               k < l => threads[root_set[k]].date >= threads[root_set[l]].date
    /\ phase = "done" =>
           \A k, l \in DOMAIN root_set :
               k < l => \A a \in Members(threads, root_set[k]) :
                            \A b \in Members(threads, root_set[l]) :
                                /\ Positions(a) # {}
                                /\ Positions(b) # {}
                                /\ \A ja \in Positions(a) : \A jb \in Positions(b) : ja < jb

\* C12 witness: a finished build whose more recent root was created after the
\* root that follows it.
LaterRootFirst ==
    /\ phase = "done"
    /\ \E k, l \in DOMAIN root_set :
           /\ k < l
           /\ root_set[k] > root_set[l]
           /\ threads[root_set[k]].date > threads[root_set[l]].date

\* The latest envelope date in the thread harvested as r.
LatestIn(r) ==
    LET D == {collection[threads[c].message].date : c \in Members(threads, r)}
    IN  CHOOSE d \in D : \A e \in D : e <= d

\* C13: when build_threads has returned, the threads are in non-increasing
\* order of the latest envelope date found in each.
ThreadsByLatestDate ==
    phase = "done" =>
        \A k, l \in DOMAIN root_set :
            k < l => LatestIn(root_set[k]) >= LatestIn(root_set[l])

\* C14: roots of equal date are in the order in which their containers were
\* created.
TiesKeepDiscoveryOrder ==
    phase = "harvested" =>
        \A k, l \in DOMAIN root_set :
            (k < l /\ threads[root_set[k]].date = threads[root_set[l]].date)
                => root_set[k] < root_set[l]

\* The containers above c in the child lists.
Above(ts, c) == {a \in DOMAIN ts : c \in Descendants(ts, a)}

\* C15: after the flatten walk a message's indentation is the number of its
\* message-bearing proper ancestors: a placeholder takes no indentation level,
\* and the children of a root placeholder are at indentation 0.
PlaceholderTakesNoLevel ==
    phase = "done" =>
        \A c \in DOMAIN threads :
            has_message(threads[c]) =>
                threads[c].indentation =
                    Cardinality({a \in Above(threads, c) : has_message(threads[a])})

\* The first message-bearing container reached from the harvested root r.
ThreadRoot(ts, r) == IF has_message(ts[r]) THEN r ELSE ts[r].first_child
SubjectOf(c) == collection[threads[c].message].subject

\* C16: after the flatten walk a message-bearing container that is not its
\* thread's root has show_subject false exactly when its subject is the thread
\* root's subject or "Re: " followed by it, and a root keeps show_subject true.
SuppressedAgainstThreadRoot ==
    phase = "done" =>
        \A k \in DOMAIN root_set :
            LET top == ThreadRoot(threads, root_set[k])
            IN  /\ threads[top].show_subject
                /\ \A c \in Members(threads, root_set[k]) \ {top} :
                       threads[c].show_subject
                           <=> ~ \/ SubjectOf(c) = SubjectOf(top)
                                 \/ SubjectOf(c) = RePrefix \o SubjectOf(top)

RECURSIVE PreorderOf(_, _, _)
RECURSIVE PreorderAll(_, _, _)
\* The subtree of c depth first, a container before its descendants and the
\* children of a container in child list order.
PreorderOf(ts, c, k) ==
    IF k = 0 THEN <<>> ELSE <<c>> \o PreorderAll(ts, ChildList(ts, c), k - 1)
PreorderAll(ts, cs, k) ==
    IF cs = <<>> THEN <<>>
    ELSE PreorderOf(ts, Head(cs), k) \o PreorderAll(ts, Tail(cs), k)

VecToSeq(v) == [j \in 1..VLen(v) |-> v[j - 1]]
IsPrefix(q, r) == Len(q) <= Len(r) /\ \A j \in 1..Len(q) : q[j] = r[j]
WithMessage(c) == has_message(threads[c])

\* The flat order is the pre-order of the harvested roots' subtrees, one root
\* after the other, without the placeholders.
FlatIsPreorder ==
    phase = "done" =>
        /\ VecToSeq(threaded_collection) =
               SelectSeq(PreorderAll(threads, VecToSeq(root_set), VLen(threads) + 1),
                         WithMessage)
        /\ \A c \in DOMAIN threads :
               Cardinality(Positions(c)) = IF has_message(threads[c]) THEN 1 ELSE 0

\* A step only ever adds a child at the end of a child list.
ChildListsOnlyGrow ==
    \A p \in DOMAIN threads : IsPrefix(ChildList(threads, p), ChildList(threads', p))

\* C17: the flat order holds every message-bearing container once and no
\* placeholder, thread after thread in root list order, each thread depth
\* first in pre-order with the siblings in the order in which they were linked
\* under their parent.
FlatOrderIsLinkOrderPreorder == [][ChildListsOnlyGrow /\ FlatIsPreorder']_vars

\* C17 witness: a finished build of three messages, two of them linked under
\* the same message.
DoneWithTwoReplies ==
    /\ phase = "done"
    /\ VLen(threaded_collection) = 3
    /\ \E p \in DOMAIN threads :
           has_message(threads[p]) /\ Len(ChildList(threads, p)) = 2

\* The orders M1..Mn in which coll is a linear chain: distinct Message-IDs, M1
\* without references, the last reference of each next message the one before.
ChainOrders(coll) ==
    {f \in [1..VLen(coll) -> DOMAIN coll] :
        /\ \A a, b \in 1..VLen(coll) :
               a # b => /\ f[a] # f[b]
                        /\ coll[f[a]].message_id # coll[f[b]].message_id
        /\ \A a \in 1..VLen(coll) :
               /\ coll[f[a]].in_reply_to = EmptyId
               /\ IF a = 1 THEN coll[f[a]].references = <<>>
                  ELSE /\ coll[f[a]].references # <<>>
                       /\ coll[f[a]].references[Len(coll[f[a]].references)]
                              = coll[f[a - 1]].message_id}

ContainerOf(j) == collection[j].thread

\* C18: a collection that is a linear chain M1..Mn, in whatever order its
\* envelopes come, is built into one root M1 with each next message the only
\* child of the one before, no placeholder, and the flat order M1..Mn at
\* indentation 0..n-1.
LinearChainBuilt ==
    (phase = "done" /\ VLen(collection) > 0) =>
        \A f \in ChainOrders(collection) :
            LET n == VLen(collection)
            IN  /\ root_set = ToVec(<<ContainerOf(f[1])>>)
                /\ \A a \in 1..n :
                       /\ ContainerOf(f[a]) \in DOMAIN threads
                       /\ threads[ContainerOf(f[a])].message = f[a]
                       /\ threads[ContainerOf(f[a])].indentation = a - 1
                       /\ ChildList(threads, ContainerOf(f[a])) =
                              IF a = n THEN <<>> ELSE <<ContainerOf(f[a + 1])>>
                /\ Placeholders(threads) = {}
                /\ threaded_collection = [j \in 0..(n - 1) |-> ContainerOf(f[j + 1])]

\* C18 witness: a finished build of a chain of three whose envelopes came last
\* message first.
DoneWithReversedChain ==
    /\ phase = "done"
    /\ VLen(collection) = 3
    /\ ChainOrders(collection) # {}
    /\ collection[0].references # <<>>
    /\ collection[1].references = <<collection[2].message_id>>
    /\ collection[2].references = <<>>

\* The step is one turn of the loop over the sent folder.
SentStep == sent_seen' = sent_seen + 1

\* The Message-ID or the non-empty In-Reply-To of x is in the id index.
SentIndexed(x) ==
    \/ x.message_id \in DOMAIN id_table
    \/ (x.in_reply_to # EmptyId /\ x.in_reply_to \in DOMAIN id_table)

\* The sent envelope of the step repeats a Message-ID that is already bound.
SentDuplicate(x) ==
    /\ x.message_id \in DOMAIN id_table
    /\ has_message(threads[id_table[x.message_id]])

\* The step has copied x to the end of the collection, bound to container c.
Cloned(x, c) ==
    /\ VLen(collection') = VLen(collection) + 1
    /\ \A j \in DOMAIN collection : collection'[j] = collection[j]
    /\ collection'[VLen(collection)] = set_thread(x, c)
    /\ c \in DOMAIN threads'
    /\ threads'[c].message = VLen(collection)

\* The step has bound x into the placeholder indexed under its Message-ID.
BoundIntoPlaceholder(x) ==
    /\ x.message_id \in DOMAIN id_table
    /\ Cloned(x, id_table[x.message_id])
    /\ ~has_message(threads[id_table[x.message_id]])
    /\ VLen(threads') = VLen(threads)
    /\ id_table' = id_table

\* The step has given x a new container at the end of the child list of the
\* container of its In-Reply-To and raised the dates from there to the root.
LinkedUnderInReplyTo(x) ==
    /\ x.message_id \notin DOMAIN id_table
    /\ x.in_reply_to \in DOMAIN id_table
    /\ Cloned(x, VLen(threads))
    /\ VLen(threads') = VLen(threads) + 1
    /\ id_table' = Insert(id_table, x.message_id, VLen(threads))
    /\ LET c == VLen(threads)
           p == id_table[x.in_reply_to]
       IN  /\ threads'[c].parent = p
           /\ ChildList(threads', p) = Append(ChildList(threads, p), c)
           /\ \A a \in {p} \cup Ancestors(threads', p) : threads'[a].date >= x.date

\* C19 as stated: every sent envelope whose Message-ID or non-empty
\* In-Reply-To is indexed when it is examined is cloned into the collection,
\* extending it by one, and bound into the placeholder or linked under the
\* container of its In-Reply-To with the dates raised up to the root.
EveryMatchedSentCloned ==
    [][(SentStep /\ SentIndexed(last'.x))
          => (BoundIntoPlaceholder(last'.x) \/ LinkedUnderInReplyTo(last'.x))]_vars

\* C19: a sent envelope whose Message-ID or non-empty In-Reply-To is indexed
\* when it is examined is skipped, nothing being changed, when its Message-ID
\* is already bound to a message; otherwise it is cloned into the collection,
\* extending it by one, and bound into the placeholder or linked under the
\* container of its In-Reply-To with the dates raised up to the root.
MatchedSentClonedUnlessDuplicate ==
    [][(SentStep /\ SentIndexed(last'.x))
          => IF SentDuplicate(last'.x)
             THEN UNCHANGED <<collection, threads, id_table, idx, tidx>>
             ELSE /\ BoundIntoPlaceholder(last'.x) \/ LinkedUnderInReplyTo(last'.x)
                  /\ idx' = idx + 1]_vars

\* C19 witness: a sent reply has just been linked under a message that itself
\* has a parent with an older date to raise.
SentReplyRaisedGrandparent ==
    /\ last.op = "sent"
    /\ last.event = "linked"
    /\ panic = ""
    /\ LET p == threads[last.c].parent
       IN  /\ threads[p].parent # None
           /\ has_message(threads[threads[p].parent])
           /\ collection[threads[threads[p].parent].message].date < last.x.date

\* C20: a sent envelope whose Message-ID and In-Reply-To are both absent from
\* the id index when it is examined leaves the collection, the arena and the
\* id index unchanged.
UnmatchedSentIgnored ==
    [][(SentStep /\ last'.x.message_id \notin DOMAIN id_table
                 /\ last'.x.in_reply_to \notin DOMAIN id_table)
          => UNCHANGED <<collection, threads, id_table, idx, tidx>>]_vars

\* C20 witness: the sent envelope just examined has a Message-ID and a
\* non-empty In-Reply-To that are both absent from the id index.
SentUnmatchedReplyExamined ==
    /\ last.op = "sent"
    /\ last.event = "ignored"
    /\ last.x.in_reply_to # EmptyId
    /\ last.x.message_id \notin DOMAIN id_table
    /\ last.x.in_reply_to \notin DOMAIN id_table
    /\ VLen(collection) > 0

\* C21: a turn of the sent-folder merge is purely additive: it removes no
\* container and no id index entry, changes neither the parent nor the bound
\* message of a container that existed before, only appends to child lists,
\* and leaves every envelope of the collection at its position.
MergeIsAdditive ==
    [][SentStep =>
          /\ VLen(threads') >= VLen(threads)
          /\ \A k \in DOMAIN id_table :
                 k \in DOMAIN id_table' /\ id_table'[k] = id_table[k]
          /\ \A c \in DOMAIN threads :
                 /\ c \in DOMAIN threads'
                 /\ threads'[c].id = threads[c].id
                 /\ threads'[c].parent = threads[c].parent
                 /\ has_message(threads[c]) => threads'[c].message = threads[c].message
                 /\ IsPrefix(ChildList(threads, c), ChildList(threads', c))
          /\ VLen(collection') >= VLen(collection)
          /\ \A j \in DOMAIN collection : collection'[j] = collection[j]]_vars

\* C21 witness: a sent reply has just been linked behind an earlier child of
\* the message it answers.
SentReplyAppendedBehindSibling ==
    /\ last.op = "sent"
    /\ last.event = "linked"
    /\ panic = ""
    /\ LET l == ChildList(threads, threads[last.c].parent)
       IN  Len(l) >= 2 /\ l[Len(l)] = last.c

(***************************************************************************)
(* build_threads called again on the collection a first call has left      *)
(***************************************************************************)
Built(ts, tab, coll, pn) == [threads |-> ts, id_table |-> tab, collection |-> coll, panic |-> pn]

\* Lines 121-228: the loop of build_collection from position i on.
RECURSIVE build_collection(_, _, _, _)
build_collection(ts, tab, coll, i) ==
    IF i >= VLen(coll) THEN Built(ts, tab, coll, "")
    ELSE LET o == build_collection_step(ts, tab, i, coll[i])
         IN  IF o.panic # ""
             THEN Built(o.threads, o.id_table, coll, o.panic)
             ELSE build_collection(o.threads, o.id_table, [coll EXCEPT ![i] = o.x], i + 1)

\* Lines 264-339: the loop over the sent collection from its k-th envelope on.
RECURSIVE merge_sent(_, _, _, _, _, _, _)
merge_sent(ts, tab, coll, i, ti, sent, k) ==
    IF k > Len(sent) THEN Built(ts, tab, coll, "")
    ELSE LET o == merge_step(ts, tab, coll, i, ti, sent[k])
         IN  IF o.panic # ""
             THEN Built(o.threads, o.id_table, o.collection, o.panic)
             ELSE merge_sent(o.threads, o.id_table, o.collection, o.idx, o.tidx, sent, k + 1)

\* Lines 240-341: build_threads up to the root harvest.
build_threads(coll, sent) ==
    LET b == build_collection(EmptyVec, EmptyMap, coll, 0)
    IN  IF b.panic # "" THEN b
        ELSE merge_sent(b.threads, b.id_table, b.collection,
                        VLen(b.collection), VLen(b.threads), sent, 1)

\* A build over envelopes of one date whose sent envelopes carry both a
\* References list and an In-Reply-To.
RebuildPrimary == {Envelope(m, refs, EmptyId, 1, <<"a">>) : m \in MsgIds, refs \in RefLists}
RebuildSent ==
    {Envelope(m, refs, irt, 1, <<"a">>) :
        m \in MsgIds, refs \in RefLists, irt \in {EmptyId} \cup MsgIds}
NextRebuild ==
    \/ \E x \in RebuildPrimary : ProcessPrimary(x)
    \/ BeginMerge
    \/ \E x \in RebuildSent : ProcessSent(x)
    \/ Harvest
    \/ Flatten
SpecRebuild == Init /\ [][NextRebuild]_vars

\* The sent collection of the build in progress.
SentSoFar == IF last.op = "sent" THEN <<last.x>> ELSE <<>>

KeyOf(tab, v) == IF v = None THEN EmptyId ELSE CHOOSE k \in DOMAIN tab : tab[k] = v
KeysOf(tab, q) == [j \in DOMAIN q |-> KeyOf(tab, q[j])]

\* The arena by Message-ID: parent, bound message and child list of each
\* indexed container.
ArenaView(ts, tab) ==
    [k \in DOMAIN tab |->
        [parent |-> KeyOf(tab, ts[tab[k]].parent),
         message |-> ts[tab[k]].message,
         children |-> KeysOf(tab, ChildList(ts, tab[k]))]]

\* The root orders and flat orders, by Message-ID, that the harvest and the
\* flatten walk can give for an arena.
Outputs(ts, tab, coll) ==
    {LET roots == harvest(ts, order)
         w == flatten(ts, EmptyVec, roots, 0, coll)
     IN  <<KeysOf(tab, roots), KeysOf(tab, w.threaded)>> : order \in RootOrders(ts, tab)}

\* C22: build_threads called again on the collection as a first call left
\* it, with the same sent collection, gives an isomorphic arena (same parent
\* and child edges, same bound messages, same root order and flat order) and
\* does not extend the collection.
RebuildIsIsomorphic ==
    (phase = "sent" /\ last.op \in {"begin_merge", "sent"}) =>
        LET again == build_threads(collection, SentSoFar)
        IN  /\ again.panic = ""
            /\ VLen(again.collection) = VLen(collection)
            /\ ArenaView(again.threads, again.id_table) = ArenaView(threads, id_table)
            /\ Outputs(again.threads, again.id_table, again.collection)
                   \cap Outputs(threads, id_table, collection) # {}

\* A build without sent folder over envelopes with longer References lists.
LongRefLists == UNION {[1..k -> MsgIds] : k \in 0..(MaxRefs + 1)}
LongRefEnvelopes ==
    {Envelope(m, refs, EmptyId, d, s) :
        m \in MsgIds, refs \in LongRefLists, d \in Dates, s \in Subjects}
NextRefs ==
    \/ \E x \in LongRefEnvelopes : ProcessPrimary(x)
    \/ BeginMerge
    \/ Harvest
    \/ Flatten
SpecRefs == Init /\ [][NextRefs]_vars

\* The step is one turn of the loop of build_collection.
PrimaryStep == phase = "primary" /\ VLen(collection') = VLen(collection) + 1

ParentOf(ts, c) == IF c \in DOMAIN ts THEN ts[c].parent ELSE None

\* The step has worked with the Message-ID of envelope x and with reference
\* r alone.
UsedOnly(x, r) ==
    /\ DOMAIN id_table' \subseteq DOMAIN id_table \cup {x.message_id, r}
    /\ VLen(threads') = VLen(threads) + Cardinality(DOMAIN id_table' \ DOMAIN id_table)
    /\ Cardinality(Placeholders(threads') \ Placeholders(threads)) <= 1
    /\ \A c \in DOMAIN threads' :
           ParentOf(threads', c) # ParentOf(threads, c)
               => /\ c = last'.c
                  /\ r \in DOMAIN id_table'
                  /\ threads'[c].parent = id_table'[r]
    /\ \A c \in DOMAIN threads :
           threads'[c].date # threads[c].date
               => \/ c = last'.c
                  \/ /\ r \in DOMAIN id_table'
                     /\ c \in {id_table'[r]} \cup Ancestors(threads', id_table'[r])

\* C23: a turn of the primary build uses only the last entry of the
\* envelope's References list: it makes at most one link and at most one
\* placeholder, and the earlier entries create no container, no id index
\* entry, no link and no date change.
OnlyLastReferenceUsed ==
    [][(PrimaryStep /\ panic' = "") =>
          LET x == last'.x
              n == Len(x.references)
          IN  IF n = 0 THEN UsedOnly(x, x.message_id)
              ELSE /\ UsedOnly(x, x.references[n])
                   /\ \A j \in 1..(n - 1) :
                          x.references[j] \notin {x.message_id, x.references[n]}
                              => (x.references[j] \in DOMAIN id_table'
                                     => x.references[j] \in DOMAIN id_table)
                   /\ LET o == build_collection_step(threads, id_table, VLen(collection),
                                    [x EXCEPT !.references = <<x.references[n]>>])
                      IN  threads' = o.threads /\ id_table' = o.id_table]_vars

\* C23 witness: an envelope with two different references, neither of them
\* indexed before, has just been linked under a placeholder for the last one.
TwoReferencesOnePlaceholder ==
    /\ last.op = "primary"
    /\ last.event = "placeholder"
    /\ Len(last.x.references) = 2
    /\ last.x.references[1] # last.x.references[2]
    /\ last.x.references[1] # last.x.message_id
    /\ last.x.references[1] \notin DOMAIN id_table
    /\ last.x.references[2] \in DOMAIN id_table

\* The step has examined an envelope and gone on to the 'date loop: the
\* primary build after a link made or refused or a placeholder created, the
\* merge after a reply linked.
PropagatingStep ==
    /\ panic' = ""
    /\ \/ PrimaryStep /\ last'.event \in {"linked", "refused", "placeholder"}
       \/ SentStep /\ last'.event = "linked"

\* The Message-ID the step has propagated the date from.
ReferredBy(step) ==
    IF step.op = "primary" THEN step.x.references[Len(step.x.references)]
    ELSE step.x.in_reply_to

\* C24: right after an envelope that refers to another has been processed,
\* the referenced container and every container on its parent chain have a
\* date of at least the envelope's date, and the date of no container off
\* that chain was changed by the propagation.
DatePropagatedToRoot ==
    [][PropagatingStep =>
          LET x == last'.x
              p == id_table'[ReferredBy(last')]
              chain == {p} \cup Ancestors(threads', p)
          IN  /\ \A a \in chain : threads'[a].date >= x.date
              /\ \A c \in DOMAIN threads :
                     threads'[c].date # threads[c].date => c \in chain \cup {last'.c}]_vars

\* C24 witness: a reply newer than the whole thread has just been linked
\* under a message that has a parent.
NewerReplyLinkedBelowChild ==
    /\ last.op = "primary"
    /\ last.event = "linked"
    /\ last.x.date = MaxDate
    /\ LET p == threads[last.c].parent
       IN  /\ p # None
           /\ threads[p].parent # None
           /\ has_message(threads[p]) /\ collection[threads[p].message].date < MaxDate
           /\ has_message(threads[threads[p].parent])
           /\ collection[threads[threads[p].parent].message].date < MaxDate

\* The container in whose child list c is, None when there is none.
StructuralParent(ts, c) ==
    LET P == {p \in DOMAIN ts : \E j \in 1..Len(ChildList(ts, p)) : ChildList(ts, p)[j] = c}
    IN  IF P = {} THEN None ELSE CHOOSE p \in P : TRUE

\* The step is the flatten walk, run to its end.
FlattenStep == phase = "harvested" /\ phase' = "done"

\* C25: the flatten walk sets to None the parent of every container whose
\* structural parent is a placeholder and leaves every other parent field and
\* every first_child and next_sibling as the build left them.
ParentClearedUnderPlaceholder ==
    [][FlattenStep =>
          /\ DOMAIN threads' = DOMAIN threads
          /\ \A c \in DOMAIN threads :
                 LET sp == StructuralParent(threads, c)
                 IN  /\ threads'[c].parent =
                            IF sp # None /\ ~has_message(threads[sp])
                            THEN None
                            ELSE threads[c].parent
                     /\ threads'[c].first_child = threads[c].first_child
                     /\ threads'[c].next_sibling = threads[c].next_sibling]_vars

\* C25 witness: a finished build in which a placeholder with two children
\* stayed and both children have lost their parent field.
DoneWithOrphanedSiblings ==
    /\ phase = "done"
    /\ \E p \in Placeholders(threads) :
           /\ Len(ChildList(threads, p)) = 2
           /\ \A j \in 1..2 : threads[ChildList(threads, p)[j]].parent = None

InChildList(ts, p, c) == \E j \in 1..Len(ChildList(ts, p)) : ChildList(ts, p)[j] = c

\* The parent fields say what the child lists say.
ParentsAgree ==
    \A c \in DOMAIN threads : \A p \in DOMAIN threads :
        threads[c].parent = p <=> InChildList(threads, p, c)

\* C26: at every step of the build before the flatten walk a container has
\* parent p exactly when it is in the child list of p, and a parent once set
\* is never replaced.
ParentsMatchChildLists ==
    [][(phase' \in {"primary", "sent", "harvested"}) =>
          /\ ParentsAgree'
          /\ \A c \in DOMAIN threads :
                 threads[c].parent # None => threads'[c].parent = threads[c].parent]_vars

\* C26 witness: the build has ended with two containers in the child list of
\* a third, one of them linked there by the merge.
HarvestedWithSentSibling ==
    /\ phase = "harvested"
    /\ sent_seen = 1
    /\ \E p \in DOMAIN threads :
           /\ Len(ChildList(threads, p)) = 2
           /\ threads[ChildList(threads, p)[2]].message = VLen(collection) - 1
           /\ collection[VLen(collection) - 1].in_reply_to # EmptyId

\* C27: at every step of the build a placeholder has no parent and is in no
\* container's child list.
PlaceholdersParentless ==
    \A c \in Placeholders(threads) :
        /\ threads[c].parent = None
        /\ \A p \in DOMAIN threads : ~InChildList(threads, p, c)

\* C27 witness: the primary build holds a placeholder above two messages
\* while a third message has been bound.
PlaceholderAboveTwoInPrimary ==
    /\ phase = "primary"
    /\ VLen(collection) = 3
    /\ \E c \in Placeholders(threads) : Len(ChildList(threads, c)) = 2
    /\ last.event \in {"linked", "refused", "duplicate"}

\* C28: the primary build refuses the link of the current container under
\* the referenced one only when the referenced container is the current one
\* or lies in its subtree; every other link to an indexed reference is made.
NoFalseRefusal ==
    [][(PrimaryStep /\ panic' = "" /\ last'.event \in {"linked", "refused"}) =>
          LET c == last'.c
              p == id_table'[ReferredBy(last')]
          IN  /\ last'.event = "refused"
                     <=> (p = c \/ p \in Descendants(threads', c))
              /\ last'.event = "linked"
                     => /\ threads'[c].parent = p
                        /\ InChildList(threads', p, c)]_vars

\* C28 witness: a container that has a child has just been linked under the
\* message it refers to.
SubtreeLinkedBelowParent ==
    /\ last.op = "primary"
    /\ last.event = "linked"
    /\ has_children(threads[last.c])
    /\ threads[last.c].parent # None

\* C29: the guard of the merge never refuses: a sent envelope matched through
\* its In-Reply-To alone becomes the last child of the matched container and
\* is pushed to the collection, and throughout the merge idx is the length
\* of the collection and tidx the length of the arena.
MergeGuardNeverRefuses ==
    [][(phase' = "sent") =>
          /\ idx' = VLen(collection')
          /\ tidx' = VLen(threads')
          /\ SentStep =>
                 /\ last'.event # "refused"
                 /\ (/\ last'.x.message_id \notin DOMAIN id_table
                     /\ last'.x.in_reply_to \in DOMAIN id_table)
                        => /\ last'.event = "linked"
                           /\ LET l == ChildList(threads', id_table[last'.x.in_reply_to])
                              IN  Len(l) > 0 /\ l[Len(l)] = last'.c
                           /\ last'.c = tidx
                           /\ threads'[last'.c].message = idx
                           /\ VLen(collection') = VLen(collection) + 1
                           /\ collection'[idx].message_id = last'.x.message_id]_vars

\* C29 witness: the merge has linked a reply under a message whose own link
\* the primary build had refused.
SentReplyUnderRefused ==
    /\ last.op = "sent"
    /\ last.event = "linked"
    /\ panic = ""
    /\ threads[last.c].parent \in {collection[j].thread : j \in RefusedEnvelopes}

\* build_threads is sequential code: build_collection returns when the
\* primary collection ends (line 248), the loop over the sent folder ends with
\* its collection (line 343), the harvest and the sort are followed by the
\* flatten walk (line 361) and the walk by the return (line 424).  BeginMerge,
\* Harvest and Flatten have no guard but the phase, so that each is enabled in
\* every state of its phase and weak fairness of the action is weak fairness
\* of the phase being left.  The inputs are those of Spec: every envelope
\* over MsgIds, RefLists and Dates, with reference-free envelopes, several
\* replies to one message, self-references and reference cycles.
PhaseLeft(p) ==
    /\ phase = p
    /\ phase' \in {"primary", "sent", "harvested", "done", "panicked"} \ {p}
SpecTerminate ==
    Init /\ [][Next]_vars
         /\ WF_phase(PhaseLeft("primary"))
         /\ WF_phase(PhaseLeft("sent"))
         /\ WF_phase(PhaseLeft("harvested"))

\* C30: every build terminates: no walk of the parent chain, of the
\* descendants, of a sibling list or of the flatten recursion runs without
\* end, and build_threads returns.  A walk that does not end within the
\* arena's size leaves the build in phase "panicked" and never in "done".
BuildTerminates == <>(phase = "done")

\* C30 witness: build_threads has returned on two envelopes that refer to
\* each other, the second link refused, and a sent reply appended behind the
\* existing child of the message it answers: is_descendant has run for the
\* refusal and for the merge guard, the merge has scanned the sibling list and
\* the flatten walk has taken a second turn of its child loop.
DoneOnCycleWithSiblings ==
    /\ phase = "done"
    /\ sent_seen = 1
    /\ VLen(collection) = 3
    /\ VLen(threaded_collection) = 3
    /\ collection[0].message_id # collection[1].message_id
    /\ collection[0].references = <<collection[1].message_id>>
    /\ collection[1].references = <<collection[0].message_id>>
    /\ collection[2].in_reply_to = collection[1].message_id
    /\ \E c \in DOMAIN threads :
           /\ threads[c].message = 1
           /\ threads[c].first_child # None
           /\ threads[threads[c].first_child].message = 0
           /\ threads[threads[c].first_child].next_sibling # None
           /\ threads[threads[threads[c].first_child].next_sibling].message = 2

====
